---- MODULE Spec2Model ----
(***************************************************************************)
(* The audio ducker of the GoXLR daemon                                    *)
(* (goxlr-daemon/src/device/goxlr/components/ducker.rs).                   *)
(*                                                                         *)
(* One tick is one call of handle_ducking.  Decibel values (f64 in the     *)
(* source) are integers in tenths of a dB; the levels and gate times drawn *)
(* below make every division of noise_gate exact, so the integer           *)
(* arithmetic is the source's arithmetic.  Times are milliseconds.         *)
(***************************************************************************)
EXTENDS Integers, Sequences, FiniteSets, TLC

VARIABLES
    profile,      \* self.profile: ducking configuration (fixed after load)
    mic_profile,  \* self.mic_profile: the microphone gate settings
    ducking,      \* self.ducking: AudioDucker {temp, ducking_calc, noise_gate}
    panicked,     \* an index or subtraction panicked: the task is gone
    tick,         \* what the last call of handle_ducking read and did
    hist          \* history: the entry emitted last, the run of requests

vars == <<profile, mic_profile, ducking, panicked, tick, hist>>

-----------------------------------------------------------------------------
(* Bounds of the model *)

\* longest transition table drawn
MaxLen == 2
\* the run of consecutive requesting ticks is counted up to here
MaxStreak == 7
\* the run of consecutive ticks without a request is counted up to here
MaxCalm == 3

(* Program constants *)

\* const MIC_DB_MAX: f64 = -72.2, in tenths of a dB
MIC_DB_MAX == -722
\* self.timer_interval, the polling interval in ms
timer_interval == 20
\* GateTimes::Time2000ms.to_u16()
Time2000ms == 2000

Mic == "Mic"

\* InputChannels and OutputChannels in iteration order (two of each)
InputChannels == <<"Music", "Chat">>
OutputChannels == <<"Headphones", "StreamMix">>
Cells == {<<InputChannels[i], OutputChannels[o]>> : i \in 1..2, o \in 1..2}

\* raw microphone levels (tenths of a dB) that grab_mic_db may return
MicLevels == {-400, -100}

\* entry i (0-based) of the tables the model draws from
DuckEntry(i) == [route_volume |-> 80 - 30 * i, wait_time |-> 40 * ((i + 1) % 2)]
UnduckEntry(i) == [route_volume |-> 60 + 20 * i, wait_time |-> 20 * ((i + 1) % 2)]
DuckTable(n) == [i \in 1..n |-> IF n = 1 THEN [route_volume |-> 80, wait_time |-> 0]
                                         ELSE DuckEntry(i - 1)]
UnduckTable(n) == [i \in 1..n |-> IF n = 1 THEN [route_volume |-> 100, wait_time |-> 0]
                                           ELSE UnduckEntry(i - 1)]

\* Rust's 0-based slice index: table[i]
At(table, i) == table[i + 1]
InBounds(table, i) == i >= 0 /\ i < Len(table)

-----------------------------------------------------------------------------
(* DuckingCalculator *)

handle_result(calc, name, state) ==
    LET set == IF state THEN calc.set \cup {name} ELSE calc.set \ {name}
    IN  [calc EXCEPT !.set = set, !.is_empty = (set = {})]

need_duck_time_reset(calc) ==
    calc.is_empty /\ ~calc.in_duck_mode /\ ~calc.in_ducking

need_first_duck(calc) ==
    ~calc.is_empty /\ ~calc.in_duck_mode /\ ~calc.in_ducking

\* walks on only while the request lasts
need_other_duck_requested(calc, size, index) ==
    /\ ~calc.is_empty
    /\ calc.in_duck_mode /\ calc.in_ducking /\ ~calc.in_unducking /\ size > 0 /\ index < size

\* the boundary check of another revision: index <= size
need_other_duck_inclusive(calc, size, index) ==
    calc.in_duck_mode /\ calc.in_ducking /\ ~calc.in_unducking /\ size > 0 /\ index <= size

need_other_duck(calc, size, index) ==
    calc.in_duck_mode /\ calc.in_ducking /\ ~calc.in_unducking /\ size > 0 /\ index < size

need_unduck_time_reset(calc) ==
    ~calc.is_empty /\ calc.in_duck_mode /\ calc.in_ducking

need_first_unduck(calc) ==
    calc.is_empty /\ calc.in_duck_mode /\ ~calc.in_unducking

need_other_unduck(calc, size, index) ==
    ~calc.in_duck_mode /\ ~calc.in_ducking /\ calc.in_unducking /\ size > 0 /\ index < size

-----------------------------------------------------------------------------
(* The simulated noise gate *)

\* a mute that also restarts the envelope
noise_gate_muted_reset(g, db_input, threshold_db, attenuation_pct, attack_ms, release_ms, muted) ==
    IF muted THEN [gate |-> [g EXCEPT !.last_attack = 0, !.last_release = 0],
                   out |-> MIC_DB_MAX]
    ELSE IF db_input < threshold_db * 10 THEN
        LET last_release == g.last_release + timer_interval
            over == last_release > release_ms
            snap == over /\ ~g.was_above
            held == IF snap THEN MIC_DB_MAX ELSE g.last_attack_db
            out == IF held < threshold_db * 10 THEN MIC_DB_MAX ELSE held
        IN  [gate |-> [last_attack |-> 0,
                       last_release |-> IF over THEN release_ms ELSE last_release,
                       last_attack_db |-> out,
                       was_above |-> g.was_above \/ snap],
             out |-> out]
    ELSE
        LET added == g.last_attack + timer_interval
            last_attack == IF added > attack_ms THEN attack_ms ELSE added
            ramp == MIC_DB_MAX - (((MIC_DB_MAX - db_input) * last_attack) \div attack_ms)
            out == IF ramp < threshold_db * 10 THEN MIC_DB_MAX ELSE ramp
        IN  [gate |-> [last_attack |-> last_attack,
                       last_release |-> 0,
                       last_attack_db |-> out,
                       was_above |-> FALSE],
             out |-> out]

\* without the clamp of lines 356-358
noise_gate_no_clamp(g, db_input, threshold_db, attenuation_pct, attack_ms, release_ms, muted) ==
    IF muted THEN [gate |-> g, out |-> MIC_DB_MAX]
    ELSE IF db_input < threshold_db * 10 THEN
        LET last_release == g.last_release + timer_interval
            over == last_release > release_ms
            snap == over /\ ~g.was_above
            held == IF snap THEN MIC_DB_MAX ELSE g.last_attack_db
            out == IF held < threshold_db * 10 THEN MIC_DB_MAX ELSE held
        IN  [gate |-> [last_attack |-> 0,
                       last_release |-> IF over THEN release_ms ELSE last_release,
                       last_attack_db |-> out,
                       was_above |-> g.was_above \/ snap],
             out |-> out]
    ELSE
        LET added == g.last_attack + timer_interval
            last_attack == IF added > attack_ms THEN attack_ms ELSE added
            ramp == MIC_DB_MAX - (((MIC_DB_MAX - db_input) * last_attack) \div attack_ms)
            out == ramp
        IN  [gate |-> [last_attack |-> last_attack,
                       last_release |-> 0,
                       last_attack_db |-> out,
                       was_above |-> FALSE],
             out |-> out]

\* the release ends when the accumulator reaches release_ms
noise_gate_release_reached(g, db_input, threshold_db, attenuation_pct, attack_ms, release_ms, muted) ==
    IF muted THEN [gate |-> g, out |-> MIC_DB_MAX]
    ELSE IF db_input < threshold_db * 10 THEN
        LET last_release == g.last_release + timer_interval
            over == last_release >= release_ms
            snap == over /\ ~g.was_above
            held == IF snap THEN MIC_DB_MAX ELSE g.last_attack_db
            out == IF held < threshold_db * 10 THEN MIC_DB_MAX ELSE held
        IN  [gate |-> [last_attack |-> 0,
                       last_release |-> IF over THEN release_ms ELSE last_release,
                       last_attack_db |-> out,
                       was_above |-> g.was_above \/ snap],
             out |-> out]
    ELSE
        LET added == g.last_attack + timer_interval
            last_attack == IF added > attack_ms THEN attack_ms ELSE added
            ramp == MIC_DB_MAX - (((MIC_DB_MAX - db_input) * last_attack) \div attack_ms)
            out == IF ramp < threshold_db * 10 THEN MIC_DB_MAX ELSE ramp
        IN  [gate |-> [last_attack |-> last_attack,
                       last_release |-> 0,
                       last_attack_db |-> out,
                       was_above |-> FALSE],
             out |-> out]

\* noise_gate: returns the gate memory afterwards and the output level.
\* muted is profile.cough.mute_state != MuteState::Unmuted.
noise_gate(g, db_input, threshold_db, attenuation_pct, attack_ms, release_ms, muted) ==
    IF muted THEN [gate |-> g, out |-> MIC_DB_MAX]
    ELSE IF db_input < threshold_db * 10 THEN
        LET last_release == g.last_release + timer_interval
            over == last_release > release_ms
            snap == over /\ ~g.was_above
            held == IF snap THEN MIC_DB_MAX ELSE g.last_attack_db
            out == IF held < threshold_db * 10 THEN MIC_DB_MAX ELSE held
        IN  [gate |-> [last_attack |-> 0,
                       last_release |-> IF over THEN release_ms ELSE last_release,
                       last_attack_db |-> out,
                       was_above |-> g.was_above \/ snap],
             out |-> out]
    ELSE
        LET added == g.last_attack + timer_interval
            last_attack == IF added > attack_ms THEN attack_ms ELSE added
            ramp == MIC_DB_MAX - (((MIC_DB_MAX - db_input) * last_attack) \div attack_ms)
            out == IF ramp < threshold_db * 10 THEN MIC_DB_MAX ELSE ramp
        IN  [gate |-> [last_attack |-> last_attack,
                       last_release |-> 0,
                       last_attack_db |-> out,
                       was_above |-> FALSE],
             out |-> out]

\* handle_mic_calculations: the gate memory afterwards, new_db (the level the
\* gate returned) and (name, ducking_state)
handle_mic_calculations(g, db, muted) ==
    LET Decide(r) == [gate |-> r.gate, new_db |-> r.out, name |-> Mic,
                      state |-> r.out >= mic_profile.gate.threshold * 10]
    IN  Decide(noise_gate(g, db,
                          mic_profile.gate.threshold + 12,
                          mic_profile.gate.attenuation,
                          mic_profile.gate.attack,
                          mic_profile.gate.release,
                          muted))

-----------------------------------------------------------------------------
(* The transition state machine.  d is self.ducking; every operator        *)
(* returns the AudioDucker afterwards together with its return value.      *)

\* adds the interval first and compares afterwards
update_check_time_eager(d, duck, time) ==
    LET last_time == IF duck THEN d.temp.last_duck_time ELSE d.temp.last_unduck_time
    IN  IF last_time < time
        THEN [d |-> IF duck
                    THEN [d EXCEPT !.temp.last_duck_time = @ + timer_interval]
                    ELSE [d EXCEPT !.temp.last_unduck_time = @ + timer_interval],
              ok |-> last_time + timer_interval >= time]
        ELSE [d |-> d, ok |-> TRUE]

\* compares but never adds the interval
update_check_time_stuck(d, duck, time) ==
    LET last_time == IF duck THEN d.temp.last_duck_time ELSE d.temp.last_unduck_time
    IN  IF last_time < time
        THEN [d |-> d, ok |-> FALSE]
        ELSE [d |-> d, ok |-> TRUE]

update_check_time(d, duck, time) ==
    LET last_time == IF duck THEN d.temp.last_duck_time ELSE d.temp.last_unduck_time
    IN  IF last_time < time
        THEN [d |-> IF duck
                    THEN [d EXCEPT !.temp.last_duck_time = @ + timer_interval]
                    ELSE [d EXCEPT !.temp.last_unduck_time = @ + timer_interval],
              ok |-> FALSE]
        ELSE [d |-> d, ok |-> TRUE]

\* sets in_unducking when unducking and never clears it
handle_first_keep_unducking(d, duck) ==
    LET at_time == IF duck THEN profile.ducking.attack_time
                           ELSE profile.ducking.release_time
        table == IF duck THEN profile.ducking.transition.ducking
                         ELSE profile.ducking.transition.unducking
        Waited(u) ==
            IF ~u.ok
            THEN [d |-> u.d, allowed |-> FALSE, route_volume |-> 0, index |-> 0,
                  panic |-> FALSE]
            ELSE [d |-> [u.d EXCEPT
                           !.ducking_calc.in_duck_mode = duck,
                           !.ducking_calc.in_ducking = duck,
                           !.ducking_calc.in_unducking = @ \/ ~duck,
                           !.temp = IF duck
                                    THEN [@ EXCEPT !.ducking_index = @ + 1,
                                                   !.last_unduck_time = 0,
                                                   !.unducking_index = 0]
                                    ELSE [@ EXCEPT !.unducking_index = @ + 1,
                                                   !.last_duck_time = 0,
                                                   !.ducking_index = 0]],
                  allowed |-> InBounds(table, 0),
                  route_volume |-> IF InBounds(table, 0)
                                   THEN At(table, 0).route_volume ELSE 0,
                  index |-> 0,
                  panic |-> ~InBounds(table, 0)]
    IN  Waited(update_check_time(d, duck, at_time))

\* leaves the cursor of the opposite direction where it is
handle_first_keep_cursor(d, duck) ==
    LET at_time == IF duck THEN profile.ducking.attack_time
                           ELSE profile.ducking.release_time
        table == IF duck THEN profile.ducking.transition.ducking
                         ELSE profile.ducking.transition.unducking
        Waited(u) ==
            IF ~u.ok
            THEN [d |-> u.d, allowed |-> FALSE, route_volume |-> 0, index |-> 0,
                  panic |-> FALSE]
            ELSE [d |-> [u.d EXCEPT
                           !.ducking_calc.in_duck_mode = duck,
                           !.ducking_calc.in_ducking = duck,
                           !.ducking_calc.in_unducking = ~duck,
                           !.temp = IF duck
                                    THEN [@ EXCEPT !.ducking_index = @ + 1,
                                                   !.last_unduck_time = 0]
                                    ELSE [@ EXCEPT !.unducking_index = @ + 1,
                                                   !.last_duck_time = 0]],
                  allowed |-> InBounds(table, 0),
                  route_volume |-> IF InBounds(table, 0)
                                   THEN At(table, 0).route_volume ELSE 0,
                  index |-> 0,
                  panic |-> ~InBounds(table, 0)]
    IN  Waited(update_check_time(d, duck, at_time))

\* handle_first: (allowed, route_volume); index is the table entry read and
\* panic says that transition.ducking[0] / unducking[0] was out of bounds.
handle_first(d, duck) ==
    LET at_time == IF duck THEN profile.ducking.attack_time
                           ELSE profile.ducking.release_time
        table == IF duck THEN profile.ducking.transition.ducking
                         ELSE profile.ducking.transition.unducking
        Waited(u) ==
            IF ~u.ok
            THEN [d |-> u.d, allowed |-> FALSE, route_volume |-> 0, index |-> 0,
                  panic |-> FALSE]
            ELSE [d |-> [u.d EXCEPT
                           !.ducking_calc.in_duck_mode = duck,
                           !.ducking_calc.in_ducking = duck,
                           !.ducking_calc.in_unducking = ~duck,
                           !.temp = IF duck
                                    THEN [@ EXCEPT !.ducking_index = @ + 1,
                                                   !.last_unduck_time = 0,
                                                   !.unducking_index = 0]
                                    ELSE [@ EXCEPT !.unducking_index = @ + 1,
                                                   !.last_duck_time = 0,
                                                   !.ducking_index = 0]],
                  allowed |-> InBounds(table, 0),
                  route_volume |-> IF InBounds(table, 0)
                                   THEN At(table, 0).route_volume ELSE 0,
                  index |-> 0,
                  panic |-> ~InBounds(table, 0)]
    IN  Waited(update_check_time(d, duck, at_time))

\* emits the entry before the cursor once more
handle_other_repeat(d, duck) ==
    LET table == IF duck THEN profile.ducking.transition.ducking
                         ELSE profile.ducking.transition.unducking
        index == IF duck THEN d.temp.ducking_index ELSE d.temp.unducking_index
        Waited(u) ==
            IF ~u.ok
            THEN [d |-> u.d, allowed |-> FALSE, route_volume |-> 0, index |-> index,
                  panic |-> FALSE]
            ELSE [d |-> [u.d EXCEPT
                           !.temp = IF duck
                                    THEN [@ EXCEPT !.ducking_index = @ + 1,
                                                   !.last_duck_time = 0,
                                                   !.unducking_index = 0]
                                    ELSE [@ EXCEPT !.unducking_index = @ + 1,
                                                   !.last_unduck_time = 0,
                                                   !.ducking_index = 0]],
                  allowed |-> InBounds(table, index),
                  route_volume |-> At(table, index - 1).route_volume,
                  index |-> index - 1,
                  panic |-> ~InBounds(table, index)]
    IN  IF ~InBounds(table, index - 1)
        THEN [d |-> d, allowed |-> FALSE, route_volume |-> 0, index |-> index,
              panic |-> TRUE]
        ELSE Waited(update_check_time(d, duck, At(table, index - 1).wait_time))

\* handle_other: (allowed, route_volume); panic says that index - 1 underflowed
\* or that a table index was out of bounds.
handle_other(d, duck) ==
    LET table == IF duck THEN profile.ducking.transition.ducking
                         ELSE profile.ducking.transition.unducking
        index == IF duck THEN d.temp.ducking_index ELSE d.temp.unducking_index
        Waited(u) ==
            IF ~u.ok
            THEN [d |-> u.d, allowed |-> FALSE, route_volume |-> 0, index |-> index,
                  panic |-> FALSE]
            ELSE [d |-> [u.d EXCEPT
                           !.temp = IF duck
                                    THEN [@ EXCEPT !.ducking_index = @ + 1,
                                                   !.last_duck_time = 0,
                                                   !.unducking_index = 0]
                                    ELSE [@ EXCEPT !.unducking_index = @ + 1,
                                                   !.last_unduck_time = 0,
                                                   !.ducking_index = 0]],
                  allowed |-> InBounds(table, index),
                  route_volume |-> IF InBounds(table, index)
                                   THEN At(table, index).route_volume ELSE 0,
                  index |-> index,
                  panic |-> ~InBounds(table, index)]
    IN  IF ~InBounds(table, index - 1)
        THEN [d |-> d, allowed |-> FALSE, route_volume |-> 0, index |-> index,
              panic |-> TRUE]
        ELSE Waited(update_check_time(d, duck, At(table, index - 1).wait_time))

-----------------------------------------------------------------------------
(* The routing applicator.  fails.set holds the cells whose set_route_value *)
(* returns Err, fails.apply the cells after whose write                     *)
(* apply_routing_for_channel returns Err.  The result is the sequence of    *)
(* calls made on the routing handler, in order.                             *)

SetCall(input, output, volume, ok) ==
    [op |-> "set_route_value", input |-> input, output |-> output,
     volume |-> volume, ok |-> ok]
ApplyCall(input, output, volume, ok) ==
    [op |-> "apply_routing_for_channel", input |-> input, output |-> output,
     volume |-> volume, ok |-> ok]

\* the body of the inner loop for one (input, output)
run_ducking_cell(input, output, volume, fails) ==
    LET cell == <<input, output>>
        state == profile.ducking.output_routing[cell]
        changed == state /\ cell \notin fails.set
    IN  (IF state THEN <<SetCall(input, output, volume, changed)>> ELSE <<>>)
        \o (IF changed THEN <<ApplyCall(input, output, volume, cell \notin fails.apply)>>
                       ELSE <<>>)

\* the cells in the order the two nested loops visit them, numbered from 0
CellAt(k) == <<InputChannels[(k \div Len(OutputChannels)) + 1],
               OutputChannels[(k % Len(OutputChannels)) + 1]>>
NumCells == Len(InputChannels) * Len(OutputChannels)

RECURSIVE run_ducking_from(_, _, _)
run_ducking_from(k, volume, fails) ==
    IF k >= NumCells THEN <<>>
    ELSE run_ducking_cell(CellAt(k)[1], CellAt(k)[2], volume, fails)
         \o run_ducking_from(k + 1, volume, fails)

\* gives up at the first call that fails
RECURSIVE run_ducking_abort_from(_, _, _)
run_ducking_abort_from(k, volume, fails) ==
    LET Then(calls) ==
            IF \E i \in 1..Len(calls) : ~calls[i].ok THEN calls
            ELSE calls \o run_ducking_abort_from(k + 1, volume, fails)
    IN  IF k >= NumCells THEN <<>>
        ELSE Then(run_ducking_cell(CellAt(k)[1], CellAt(k)[2], volume, fails))

run_ducking_abort(volume, fails) == run_ducking_abort_from(0, volume, fails)

run_ducking(volume, fails) == run_ducking_from(0, volume, fails)

-----------------------------------------------------------------------------
(* One evaluation of the state machine *)

\* keeps the state of before the step when a call of run_ducking failed
run_if_allowed_retry(acc, r, duck, fails) ==
    LET Ran(calls) ==
            [d |-> IF \E i \in 1..Len(calls) : ~calls[i].ok THEN acc.d ELSE r.d,
             emitted |-> Append(acc.emitted, [duck |-> duck, index |-> r.index,
                                              volume |-> r.route_volume]),
             calls |-> acc.calls \o calls,
             panic |-> r.panic,
             consulted |-> TRUE]
    IN  IF r.allowed THEN Ran(run_ducking(r.route_volume, fails))
        ELSE [d |-> r.d, emitted |-> acc.emitted, calls |-> acc.calls,
              panic |-> r.panic, consulted |-> TRUE]

\* lines 120-123 and alike: if allowed { self.run_ducking(volume).await }
\* acc accumulates what the tick did: emitted lists the table entries whose
\* volume was passed to run_ducking, calls the calls on the routing handler.
run_if_allowed(acc, r, duck, fails) ==
    [d |-> r.d,
     emitted |-> IF r.allowed
                 THEN Append(acc.emitted, [duck |-> duck, index |-> r.index,
                                           volume |-> r.route_volume])
                 ELSE acc.emitted,
     calls |-> IF r.allowed THEN acc.calls \o run_ducking(r.route_volume, fails)
                            ELSE acc.calls,
     panic |-> r.panic,
     consulted |-> TRUE]

\* lines 109-115: the accumulator resets
time_reset(d) ==
    IF need_duck_time_reset(d.ducking_calc)
    THEN [d EXCEPT !.temp.last_duck_time = 0]
    ELSE IF need_unduck_time_reset(d.ducking_calc)
    THEN [d EXCEPT !.temp.last_unduck_time = 0]
    ELSE d

Quiet(d) == [d |-> d, emitted |-> <<>>, calls |-> <<>>, panic |-> FALSE,
             consulted |-> FALSE]

\* returns early only when both tables are empty
handle_ducking_calculations_both_empty(d, fails) ==
    LET calc == d.ducking_calc
        Branch(d1) ==
            IF need_first_duck(calc)
            THEN run_if_allowed(Quiet(d1), handle_first(d1, TRUE), TRUE, fails)
            ELSE IF need_other_duck(calc, Len(profile.ducking.transition.ducking),
                                    d1.temp.ducking_index)
            THEN run_if_allowed(Quiet(d1), handle_other(d1, TRUE), TRUE, fails)
            ELSE IF need_first_unduck(calc)
            THEN run_if_allowed(Quiet(d1), handle_first(d1, FALSE), FALSE, fails)
            ELSE IF need_other_unduck(calc, Len(profile.ducking.transition.unducking),
                                      d1.temp.unducking_index)
            THEN run_if_allowed(Quiet(d1), handle_other(d1, FALSE), FALSE, fails)
            ELSE [Quiet(d1) EXCEPT !.consulted = TRUE]
    IN  IF /\ Len(profile.ducking.transition.ducking) = 0
           /\ Len(profile.ducking.transition.unducking) = 0
        THEN Quiet(d)
        ELSE Branch(time_reset(d))

\* the four branches as four separate ifs instead of one else-if chain
handle_ducking_calculations_no_else(d, fails) ==
    LET ducks == profile.ducking.transition.ducking
        unducks == profile.ducking.transition.unducking
        S1(a) == IF need_first_duck(a.d.ducking_calc)
                 THEN run_if_allowed(a, handle_first(a.d, TRUE), TRUE, fails) ELSE a
        S2(a) == IF need_other_duck(a.d.ducking_calc, Len(ducks), a.d.temp.ducking_index)
                 THEN run_if_allowed(a, handle_other(a.d, TRUE), TRUE, fails) ELSE a
        S3(a) == IF need_first_unduck(a.d.ducking_calc)
                 THEN run_if_allowed(a, handle_first(a.d, FALSE), FALSE, fails) ELSE a
        S4(a) == IF need_other_unduck(a.d.ducking_calc, Len(unducks),
                                      a.d.temp.unducking_index)
                 THEN run_if_allowed(a, handle_other(a.d, FALSE), FALSE, fails) ELSE a
    IN  IF Len(ducks) = 0 \/ Len(unducks) = 0
        THEN Quiet(d)
        ELSE S4(S3(S2(S1([Quiet(time_reset(d)) EXCEPT !.consulted = TRUE]))))

\* lines 101-161; d1 is self.ducking after the resets of lines 109-115
handle_ducking_calculations(d, fails) ==
    LET calc == d.ducking_calc
        Branch(d1) ==
            IF need_first_duck(calc)
            THEN run_if_allowed(Quiet(d1), handle_first(d1, TRUE), TRUE, fails)
            ELSE IF need_other_duck(calc, Len(profile.ducking.transition.ducking),
                                    d1.temp.ducking_index)
            THEN run_if_allowed(Quiet(d1), handle_other(d1, TRUE), TRUE, fails)
            ELSE IF need_first_unduck(calc)
            THEN run_if_allowed(Quiet(d1), handle_first(d1, FALSE), FALSE, fails)
            ELSE IF need_other_unduck(calc, Len(profile.ducking.transition.unducking),
                                      d1.temp.unducking_index)
            THEN run_if_allowed(Quiet(d1), handle_other(d1, FALSE), FALSE, fails)
            ELSE [Quiet(d1) EXCEPT !.consulted = TRUE]
    IN  IF \/ Len(profile.ducking.transition.ducking) = 0
           \/ Len(profile.ducking.transition.unducking) = 0
        THEN Quiet(d)
        ELSE CHOOSE r \in {Branch(d1) : d1 \in {time_reset(d)}} : TRUE

-----------------------------------------------------------------------------
(* The tick *)

\* What the round trip of grab_mic_db can come to: no command sender, the
\* reply channel closed without a value, a reply that is an Err, or a level.
\* muted is profile.cough.mute_state != Unmuted at that moment.
MicReplies ==
    {[kind |-> k, db |-> 0, muted |-> FALSE] : k \in {"NoSender", "Closed", "Err"}}
    \cup {[kind |-> "Ok", db |-> l, muted |-> m] : l \in MicLevels, m \in BOOLEAN}

\* grab_mic_db: Ok(db) or the bail!
grab_mic_db(reply) ==
    IF reply.kind = "Ok" THEN [ok |-> TRUE, db |-> reply.db]
                         ELSE [ok |-> FALSE, db |-> 0]

\* a failed read releases the reason
mic_input_forced_release(d, reply) ==
    LET Got(m) ==
            [d EXCEPT !.noise_gate = m.gate,
                      !.ducking_calc = handle_result(d.ducking_calc, m.name, m.state)]
    IN  IF grab_mic_db(reply).ok
        THEN Got(handle_mic_calculations(d.noise_gate, grab_mic_db(reply).db,
                                         reply.muted))
        ELSE [d EXCEPT !.ducking_calc = handle_result(d.ducking_calc, Mic, FALSE)]

\* lines 66-72: the DuckingInput::Mic arm
mic_input(d, reply) ==
    LET Got(m) ==
            [d EXCEPT !.noise_gate = m.gate,
                      !.ducking_calc = handle_result(d.ducking_calc, m.name, m.state)]
    IN  IF grab_mic_db(reply).ok
        THEN Got(handle_mic_calculations(d.noise_gate, grab_mic_db(reply).db,
                                         reply.muted))
        ELSE d

\* line 291: the new_db of the tick, 0 when the gate was not run
new_db_of(d, reply) ==
    IF profile.ducking.enabled /\ profile.ducking.input_source[Mic]
       /\ grab_mic_db(reply).ok
    THEN handle_mic_calculations(d.noise_gate, grab_mic_db(reply).db, reply.muted).new_db
    ELSE 0

\* lines 53-86; d1 is self.ducking after the DuckingInput::Mic arm
handle_ducking(d, reply, fails) ==
    LET should_duck == profile.ducking.input_source[Mic]
    IN  IF ~profile.ducking.enabled THEN Quiet(d)
        ELSE IF ~should_duck THEN Quiet(d)
        ELSE CHOOSE r \in {handle_ducking_calculations(d1, fails) :
                              d1 \in {mic_input(d, reply)}} : TRUE

-----------------------------------------------------------------------------
(* The configurations drawn, and the state after construction *)

\* the routing of the tick specification: one cell of each input channel
TickRouting == [c \in Cells |-> c[2] = "Headphones"]
RoutedCells(routing) == {c \in Cells : routing[c]}
\* the table lengths drawn: empty, a single entry, the longest
TableLens == {0, 1, MaxLen}
AttackTimes == {0, 100}
ReleaseTimes == {0, 40}

Profiles ==
    {[ducking |-> [enabled |-> e,
                   input_source |-> [i \in {Mic} |-> m],
                   output_routing |-> r,
                   attack_time |-> a,
                   release_time |-> rl,
                   transition |-> [ducking |-> DuckTable(nd),
                                   unducking |-> UnduckTable(nu)]]] :
        e \in BOOLEAN, m \in BOOLEAN, r \in {TickRouting},
        a \in AttackTimes, rl \in ReleaseTimes,
        nd \in TableLens, nu \in TableLens}

MicProfiles ==
    {[gate |-> [threshold |-> -32, attenuation |-> 100, attack |-> 40, release |-> 40]]}

\* #[derive(Default)] of AudioDucker, TempDucking and DuckingCalculator, and
\* impl Default for SimulatedNoiseGate
DefaultAudioDucker ==
    [temp |-> [ducking_index |-> 0, unducking_index |-> 0,
               last_duck_time |-> 0, last_unduck_time |-> 0],
     ducking_calc |-> [in_duck_mode |-> FALSE, in_ducking |-> FALSE,
                       in_unducking |-> FALSE, set |-> {}, is_empty |-> FALSE],
     noise_gate |-> [last_attack |-> 0, last_release |-> Time2000ms,
                     last_attack_db |-> 0, was_above |-> FALSE]]

NoFails == [set |-> {}, apply |-> {}]
\* every way the calls of one run_ducking can fail
Fails(routing) ==
    {f \in [set : SUBSET RoutedCells(routing), apply : SUBSET RoutedCells(routing)] :
        f.set \cap f.apply = {}}
NoEntry == [duck |-> FALSE, index |-> -1, volume |-> 0]

\* the phase Idle: not in duck mode and no unduck step pending
Idle(d) ==
    /\ ~d.ducking_calc.in_duck_mode
    /\ ~d.ducking_calc.in_ducking
    /\ d.ducking_calc.in_unducking
         => d.temp.unducking_index >= Len(profile.ducking.transition.unducking)

Min(a, b) == IF a < b THEN a ELSE b

\* tick before the first call
NoTick == [ticked |-> FALSE, read |-> [ok |-> FALSE, db |-> 0], muted |-> FALSE,
           new_db |-> 0,
           fails |-> NoFails, consulted |-> FALSE, requested |-> FALSE,
           prev_active |-> FALSE,
           emitted |-> <<>>, calls |-> <<>>]

\* the history before the first call
NoHist == [last |-> NoEntry, last_failed |-> FALSE,
           before |-> NoEntry, before_failed |-> FALSE,
           streak |-> 0, from_rest |-> FALSE, from_idle |-> FALSE,
           streak_emits |-> 0,
           calm |-> 0, from_ducked |-> FALSE, calm_emits |-> 0]

\* the phase Ducked: in duck mode with the duck table walked to its end
Ducked(d) ==
    /\ d.ducking_calc.in_duck_mode
    /\ d.ducking_calc.in_ducking
    /\ ~d.ducking_calc.in_unducking
    /\ d.temp.ducking_index = Len(profile.ducking.transition.ducking)

Init ==
    /\ profile \in Profiles
    /\ mic_profile \in MicProfiles
    /\ ducking = DefaultAudioDucker
    /\ panicked = FALSE
    /\ tick = NoTick
    /\ hist = NoHist

\* The history kept beside the program: the entry emitted last and whether a
\* call of that emission failed, and the same of the emission before it; the
\* run of consecutive ticks on which the state machine ran with a reason
\* active, whether the run began at rest (Idle, both accumulators 0) and how
\* many entries were emitted during it.  from_idle is from_rest without the
\* accumulators.  calm is the run of consecutive ticks on which the state
\* machine ran with no reason active, from_ducked whether that run began in
\* the phase Ducked, calm_emits the entries emitted during it.
NextHist(r) ==
    LET requested == r.consulted /\ r.d.ducking_calc.set # {}
        start == hist.streak = 0
        quiet == r.consulted /\ r.d.ducking_calc.set = {}
        calm_start == hist.calm = 0
    IN  [last |-> IF r.emitted = <<>> THEN hist.last ELSE r.emitted[Len(r.emitted)],
         last_failed |-> IF r.emitted = <<>> THEN hist.last_failed
                         ELSE \E i \in 1..Len(r.calls) : ~r.calls[i].ok,
         before |-> IF r.emitted = <<>> THEN hist.before ELSE hist.last,
         before_failed |-> IF r.emitted = <<>> THEN hist.before_failed
                           ELSE hist.last_failed,
         streak |-> IF requested THEN Min(hist.streak + 1, MaxStreak) ELSE 0,
         from_rest |-> IF ~requested THEN FALSE
                       ELSE IF start
                       THEN /\ Idle(ducking)
                            /\ ducking.temp.last_duck_time = 0
                            /\ ducking.temp.last_unduck_time = 0
                       ELSE hist.from_rest,
         from_idle |-> IF ~requested THEN FALSE
                       ELSE IF start THEN Idle(ducking)
                       ELSE hist.from_idle,
         calm |-> IF quiet THEN Min(hist.calm + 1, MaxCalm) ELSE 0,
         from_ducked |-> IF ~quiet THEN FALSE
                         ELSE IF calm_start THEN Ducked(ducking)
                         ELSE hist.from_ducked,
         calm_emits |-> IF ~quiet THEN 0
                        ELSE Min((IF calm_start THEN 0 ELSE hist.calm_emits)
                                 + Len(r.emitted), MaxStreak),
         streak_emits |-> IF ~requested THEN 0
                          ELSE Min((IF start THEN 0 ELSE hist.streak_emits)
                                   + Len(r.emitted), MaxStreak)]

\* One call of handle_ducking.  routing_fails says whether the calls of
\* run_ducking are let fail in every way or all succeed.
TickWith(routing_fails) ==
    /\ ~panicked
    /\ \E reply \in MicReplies :
         \E quiet \in {handle_ducking(ducking, reply, NoFails)} :
           \E fails \in (IF quiet.emitted = <<>> \/ ~routing_fails THEN {NoFails}
                         ELSE Fails(profile.ducking.output_routing)) :
             \E r \in {IF fails = NoFails THEN quiet
                        ELSE handle_ducking(ducking, reply, fails)} :
                /\ ducking' = r.d
                /\ panicked' = r.panic
                /\ tick' = [ticked |-> TRUE, read |-> grab_mic_db(reply),
                            muted |-> reply.muted,
                            new_db |-> new_db_of(ducking, reply),
                            fails |-> fails,
                            consulted |-> r.consulted,
                            requested |-> r.consulted /\ ~r.d.ducking_calc.is_empty,
                            prev_active |-> tick.requested /\ ducking.ducking_calc.set # {},
                            emitted |-> r.emitted, calls |-> r.calls]
                /\ hist' = NextHist(r)
    /\ UNCHANGED <<profile, mic_profile>>

\* The outer polling loop calls handle_ducking once per timer_interval.
Tick == TickWith(TRUE)

Next == Tick

Spec == Init /\ [][Next]_vars

\* The engine running for ever: ducking enabled with the microphone as its
\* source and both tables non-empty, every call of the routing handler
\* succeeding, and the outer polling loop never ceasing to call handle_ducking.
InitLive ==
    /\ Init
    /\ profile.ducking.enabled
    /\ profile.ducking.input_source[Mic]
    /\ Len(profile.ducking.transition.ducking) > 0
    /\ Len(profile.ducking.transition.unducking) > 0

TickLive == TickWith(FALSE)

NextLive == TickLive

SpecLive == InitLive /\ [][NextLive]_vars /\ WF_vars(TickLive)

-----------------------------------------------------------------------------
(* run_ducking on its own: every routing of the four cells, every volume a  *)
(* table of the model holds, every way its calls can fail.                  *)

Routings == [Cells -> BOOLEAN]
Volumes == {DuckEntry(i).route_volume : i \in 0..MaxLen}
           \cup {UnduckEntry(i).route_volume : i \in 0..MaxLen}

\* one profile for each routing; the tables and times play no part here
RoutingProfiles ==
    {[p EXCEPT !.ducking.output_routing = routing] :
        routing \in Routings,
        p \in {q \in Profiles : /\ q.ducking.enabled
                                /\ q.ducking.input_source[Mic]
                                /\ q.ducking.attack_time = 0
                                /\ q.ducking.release_time = 0
                                /\ Len(q.ducking.transition.ducking) = 1
                                /\ Len(q.ducking.transition.unducking) = 1}}

InitRouting ==
    /\ profile \in RoutingProfiles
    /\ mic_profile \in MicProfiles
    /\ ducking = DefaultAudioDucker
    /\ panicked = FALSE
    /\ tick = NoTick
    /\ hist = NoHist

\* one call of run_ducking(volume)
RunDucking ==
    \E volume \in Volumes :
      \E fails \in Fails(profile.ducking.output_routing) :
        /\ tick' = [NoTick EXCEPT
                      !.ticked = TRUE,
                      !.fails = fails,
                      !.emitted = <<[duck |-> TRUE, index |-> 0, volume |-> volume]>>,
                      !.calls = run_ducking(volume, fails)]
        /\ UNCHANGED <<profile, mic_profile, ducking, panicked, hist>>

NextRouting == RunDucking

SpecRouting == InitRouting /\ [][NextRouting]_vars

-----------------------------------------------------------------------------
(* The level gate on its own: handle_mic_calculations and handle_result     *)
(* applied to every sequence of readings, under several gate settings.      *)

GateThresholds == {-32, -20}
GateAttacks == {20, 40}
GateReleases == {30, 40}
GateProfiles ==
    {[gate |-> [threshold |-> t, attenuation |-> 100, attack |-> a, release |-> r]] :
        t \in GateThresholds, a \in GateAttacks, r \in GateReleases}
\* raw levels in tenths of a dB: the floor, -40 dB, -25 dB, -10 dB, 0 dB
GateLevels == {MIC_DB_MAX, -400, -250, -100, 0}
GateReplies ==
    {[kind |-> "Err", db |-> 0, muted |-> FALSE]}
    \cup {[kind |-> "Ok", db |-> l, muted |-> m] : l \in GateLevels, m \in BOOLEAN}

InitGate ==
    /\ profile \in {q \in Profiles : /\ q.ducking.enabled
                                    /\ q.ducking.input_source[Mic]
                                    /\ q.ducking.attack_time = 0
                                    /\ q.ducking.release_time = 0
                                    /\ Len(q.ducking.transition.ducking) = 1
                                    /\ Len(q.ducking.transition.unducking) = 1}
    /\ mic_profile \in GateProfiles
    /\ ducking = DefaultAudioDucker
    /\ panicked = FALSE
    /\ tick = NoTick
    /\ hist = NoHist

\* lines 66-72 once: the level is read, gated and handed to handle_result
GateTick ==
    \E reply \in GateReplies :
      /\ ducking' = mic_input(ducking, reply)
      /\ tick' = [NoTick EXCEPT
                    !.ticked = TRUE,
                    !.read = grab_mic_db(reply),
                    !.muted = reply.muted,
                    !.new_db = new_db_of(ducking, reply)]
      /\ UNCHANGED <<profile, mic_profile, panicked, hist>>

NextGate == GateTick

SpecGate == InitGate /\ [][NextGate]_vars

-----------------------------------------------------------------------------
(* Properties *)

ducks == profile.ducking.transition.ducking
unducks == profile.ducking.transition.unducking
Advance(a, b) == IF b > a THEN b - a ELSE 0
\* the wait that entry i of a table has to sit out: attack_time or
\* release_time for the first entry, the wait_time of entry i - 1 after it
DuckWait(i) == IF i = 0 THEN profile.ducking.attack_time ELSE At(ducks, i - 1).wait_time
UnduckWait(i) == IF i = 0 THEN profile.ducking.release_time
                          ELSE At(unducks, i - 1).wait_time
Emitted(t, duck, i) ==
    /\ Len(t.emitted) = 1
    /\ t.emitted[1].duck = duck
    /\ t.emitted[1].index = i
    /\ t.emitted[1].volume = At(IF duck THEN ducks ELSE unducks, i).route_volume

\* C1: in any single tick run_ducking is invoked at most once, and the duck
\* cursor and the unduck cursor together advance by at most 1.
C1_OneStepPerTick ==
    [][/\ Len(tick'.emitted) <= 1
       /\ Advance(ducking.temp.ducking_index, ducking'.temp.ducking_index)
          + Advance(ducking.temp.unducking_index, ducking'.temp.unducking_index) <= 1]_vars

\* a tick that emitted the first duck entry although the wait of the second
\* entry was satisfied as well
C1_Witness ==
    /\ Len(ducks) >= 2
    /\ Emitted(tick, TRUE, 0)
    /\ ducking.temp.ducking_index = 1
    /\ DuckWait(1) > 0
    /\ ducking.temp.last_duck_time >= DuckWait(1)

C2_Bounds ==
    /\ ducking.temp.ducking_index <= Len(ducks)
    /\ ducking.temp.unducking_index <= Len(unducks)
    /\ ducking.temp.ducking_index = 0 \/ ducking.temp.unducking_index = 0

C2_Step ==
    /\ ducking'.temp.ducking_index > ducking.temp.ducking_index
         => /\ ducking'.temp.ducking_index = ducking.temp.ducking_index + 1
            /\ ducking.temp.last_duck_time >= DuckWait(ducking.temp.ducking_index)
            /\ Emitted(tick', TRUE, ducking.temp.ducking_index)
            /\ ducking'.temp.unducking_index = 0
    /\ ducking'.temp.unducking_index > ducking.temp.unducking_index
         => /\ ducking'.temp.unducking_index = ducking.temp.unducking_index + 1
            /\ ducking.temp.last_unduck_time >= UnduckWait(ducking.temp.unducking_index)
            /\ Emitted(tick', FALSE, ducking.temp.unducking_index)
            /\ ducking'.temp.ducking_index = 0

\* C2: ducking_index <= len(duck_steps) and unducking_index <= len(unduck_steps)
\* in every reachable state; a cursor increases only by exactly 1, only on a
\* tick whose wait was satisfied and that emitted the step; and after a tick
\* that advanced one cursor the other cursor is 0, so never both are non-zero.
C2_Cursors == [](C2_Bounds) /\ [][C2_Step]_vars

\* the duck cursor has reached the end of a table of two entries or more, and
\* in another state the unduck cursor has advanced and reset it to 0
C2_Witness ==
    /\ Len(ducks) >= 2
    /\ Len(tick.emitted) = 1
    /\ \/ ducking.temp.ducking_index = Len(ducks) /\ tick.emitted[1].duck
       \/ ducking.temp.unducking_index = 1 /\ ~tick.emitted[1].duck
    /\ hist.before # NoEntry
    /\ hist.before.duck
    /\ hist.before.index = Len(ducks) - (IF tick.emitted[1].duck THEN 2 ELSE 1)

\* Scenario A: duck_steps = [(80, 0)], attack_time = 100 ms, tick interval 20 ms
ScenarioA ==
    /\ ducks = <<[route_volume |-> 80, wait_time |-> 0]>>
    /\ Len(unducks) > 0
    /\ profile.ducking.attack_time = 100
    /\ timer_interval = 20

\* C3 as stated: a wait fires on the tick on which its accumulator reaches
\* the threshold (so no tick ends before the first duck step with the attack
\* wait already reached), and in scenario A, from rest, volume 80 is emitted
\* on the 5th consecutive requesting tick and once over the 6 ticks.
C3_FifthTick ==
    /\ (hist.streak > 0 /\ ~ducking.ducking_calc.in_duck_mode)
         => ducking.temp.last_duck_time < profile.ducking.attack_time
    /\ (ScenarioA /\ hist.from_rest)
         => /\ hist.streak = 5 => Emitted(tick, TRUE, 0)
            /\ hist.streak = 6 => hist.streak_emits = 1

C3_ScenarioSixth ==
    (ScenarioA /\ hist.from_rest)
      => /\ hist.streak \in 1..5 => tick.emitted = <<>> /\ hist.streak_emits = 0
         /\ hist.streak = 5 => ducking.temp.last_duck_time = 100
         /\ hist.streak = 6 => Emitted(tick, TRUE, 0)
         /\ hist.streak >= 6 => hist.streak_emits = 1

\* the branch of the else-if chain that a tick takes, from the flags and
\* cursors before it and the request it sees
C3_WaitFires ==
    LET calc == ducking.ducking_calc
        temp == ducking.temp
        first_duck == ~calc.in_duck_mode /\ ~calc.in_ducking /\ tick'.requested
        other_duck == need_other_duck(calc, Len(ducks), temp.ducking_index)
        first_unduck == /\ ~other_duck /\ ~tick'.requested
                        /\ calc.in_duck_mode /\ ~calc.in_unducking
    IN  tick'.consulted =>
          /\ first_duck =>
               (Emitted(tick', TRUE, 0) <=> temp.last_duck_time >= DuckWait(0))
          /\ first_duck /\ temp.last_duck_time < DuckWait(0) =>
               ducking'.temp.last_duck_time = temp.last_duck_time + timer_interval
          /\ other_duck =>
               (Emitted(tick', TRUE, temp.ducking_index)
                  <=> temp.last_duck_time >= DuckWait(temp.ducking_index))
          /\ first_unduck =>
               (Emitted(tick', FALSE, 0) <=> temp.last_unduck_time >= UnduckWait(0))

\* C3 amended: a wait fires on the first tick that begins with its
\* accumulator at or above the threshold, which for a threshold above 0 is the
\* tick after the one on which the accumulator reaches it; in scenario A,
\* from rest, volume 80 is emitted on the 6th consecutive requesting tick and
\* exactly once over the 6 ticks.
C3_SixthTick == [](C3_ScenarioSixth) /\ [][C3_WaitFires]_vars

\* scenario A at its 6th requesting tick, the volume just emitted
C3_Witness ==
    /\ ScenarioA
    /\ hist.from_rest
    /\ hist.streak = 6
    /\ Emitted(tick, TRUE, 0)
    /\ tick.calls # <<>>

\* still entering the duck: the attack wait is partway, or steps of the duck
\* table remain to be walked
EnteringDuck(d) ==
    \/ /\ ~d.ducking_calc.in_duck_mode
       /\ ~d.ducking_calc.in_ducking
       /\ d.temp.last_duck_time > 0
    \/ /\ d.ducking_calc.in_duck_mode
       /\ d.ducking_calc.in_ducking
       /\ ~d.ducking_calc.in_unducking
       /\ d.temp.ducking_index < Len(ducks)

\* the request was true on the tick before, with a reason active, and this
\* tick sees it false
FlipToFalse ==
    /\ tick.requested
    /\ ducking.ducking_calc.set # {}
    /\ tick'.consulted
    /\ ~tick'.requested

NoDuckEmitted(t) == \A i \in 1..Len(t.emitted) : ~t.emitted[i].duck

\* the unduck entry wait against release_time has begun from 0
UnduckEntryBegun ==
    IF ducking.temp.last_unduck_time >= profile.ducking.release_time
    THEN Emitted(tick', FALSE, 0)
    ELSE /\ ducking.temp.last_unduck_time = 0
         /\ ducking'.temp.last_unduck_time = timer_interval

\* C4 as stated: when the request turns false while the engine is entering
\* the duck, the next tick emits no duck step, resets the duck accumulator to
\* 0 and begins the unduck entry wait against release_time.
C4_FlipBeginsUnduck ==
    [][(FlipToFalse /\ EnteringDuck(ducking))
         => /\ NoDuckEmitted(tick')
            /\ ducking'.temp.last_duck_time = 0
            /\ UnduckEntryBegun]_vars

C4_FlipStep ==
    LET calc == ducking.ducking_calc
        temp == ducking.temp
        fires == temp.last_duck_time >= DuckWait(temp.ducking_index)
    IN  /\ (FlipToFalse /\ EnteringDuck(ducking) /\ ~calc.in_duck_mode)
             => /\ NoDuckEmitted(tick')
                /\ ducking'.temp.last_duck_time = 0
                /\ ducking'.temp.ducking_index = 0
                /\ ~ducking'.ducking_calc.in_duck_mode
                /\ ~need_other_unduck(calc, Len(unducks), temp.unducking_index)
                     => /\ tick'.emitted = <<>>
                        /\ ducking'.temp = [temp EXCEPT !.last_duck_time = 0]
        /\ (FlipToFalse /\ EnteringDuck(ducking) /\ calc.in_duck_mode)
             => /\ ducking'.temp.last_unduck_time = temp.last_unduck_time
                /\ ducking'.temp.unducking_index = 0
                /\ ducking'.ducking_calc.in_duck_mode
                /\ IF fires
                   THEN /\ Emitted(tick', TRUE, temp.ducking_index)
                        /\ ducking'.temp.ducking_index = temp.ducking_index + 1
                   ELSE /\ tick'.emitted = <<>>
                        /\ ducking'.temp.last_duck_time
                             = temp.last_duck_time + timer_interval
        /\ (/\ tick'.consulted
            /\ calc.in_duck_mode
            /\ \/ ducking'.temp.last_unduck_time > temp.last_unduck_time
               \/ Len(tick'.emitted) = 1 /\ ~tick'.emitted[1].duck)
             => /\ temp.ducking_index = Len(ducks)
                /\ ~tick'.requested

\* C4 amended: when the request turns false while the engine is entering the
\* duck, then on the next tick (a) if no duck step was emitted yet (attack
\* wait partway, not in duck mode) no duck step is emitted and the duck
\* accumulator is reset to 0, but no unduck entry wait begins; (b) if duck steps
\* remain (in duck mode, ducking_index < len) the duck walk goes on as if the
\* request had stayed: the duck accumulator is not reset, the next duck step
\* is emitted once its wait is satisfied, and the unduck accumulator does not
\* move.  The unduck entry wait against release_time advances only on ticks
\* that see the request false with ducking_index = len(duck_steps).
C4_FlipWhileEntering == [][C4_FlipStep]_vars

\* the tick after the flip has emitted a later duck step with the request false
C4_Witness ==
    /\ tick.prev_active
    /\ tick.consulted
    /\ ~tick.requested
    /\ Len(tick.emitted) = 1
    /\ tick.emitted[1].duck
    /\ tick.emitted[1].index >= 1
    /\ ducking.ducking_calc.set = {}

Failed(t) == \E i \in 1..Len(t.calls) : ~t.calls[i].ok
Flags(d) == <<d.ducking_calc.in_duck_mode, d.ducking_calc.in_ducking,
              d.ducking_calc.in_unducking>>

\* C5: from a state with the active-reason set empty and the engine Idle, a
\* tick on which no reason becomes active (the set stays empty) leaves the
\* engine state (cursors, accumulators, phase flags) unchanged and makes no
\* routing write.
C5_IdleAtRest ==
    [][(/\ ducking.ducking_calc.set = {}
        /\ Idle(ducking)
        /\ ducking'.ducking_calc.set = {})
         => /\ ducking'.temp = ducking.temp
            /\ Flags(ducking') = Flags(ducking)
            /\ tick'.calls = <<>>]_vars

\* C6: with the duck table or the unduck table empty, every tick emits no
\* routing write and leaves the flags, both cursors and both accumulators
\* unchanged, so the phase stays Idle.
C6_EmptyTable ==
    /\ [][(Len(ducks) = 0 \/ Len(unducks) = 0)
            => /\ tick'.calls = <<>>
               /\ tick'.emitted = <<>>
               /\ ducking'.temp = ducking.temp
               /\ Flags(ducking') = Flags(ducking)]_vars
    /\ []((Len(ducks) = 0 \/ Len(unducks) = 0)
            => /\ Flags(ducking) = <<FALSE, FALSE, FALSE>>
               /\ ducking.temp = DefaultAudioDucker.temp
               /\ Idle(ducking))

\* the duck table holds an entry, the unduck table is empty, the mic has
\* triggered and the tick has run
C6_Witness ==
    /\ Len(ducks) > 0
    /\ Len(unducks) = 0
    /\ profile.ducking.attack_time = 0
    /\ tick.ticked
    /\ tick.read.ok
    /\ ducking.ducking_calc.set = {Mic}

\* C7: in every reachable state the cached is_empty flag, which the state
\* machine consults as "no duck requested", equals set.is_empty().
C7_IsEmptyCached ==
    ducking.ducking_calc.is_empty = (ducking.ducking_calc.set = {})

\* C8: a tick whose microphone level read fails leaves the active-reason set
\* and the gate memory as they were.
C8_FailedReadKeeps ==
    [][(tick'.ticked /\ ~tick'.read.ok)
         => /\ ducking'.ducking_calc.set = ducking.ducking_calc.set
            /\ ducking'.noise_gate = ducking.noise_gate]_vars

\* a failed read with the reason still active and the gate open
C8_Witness ==
    /\ tick.ticked
    /\ ~tick.read.ok
    /\ ducking.ducking_calc.set = {Mic}
    /\ ducking.noise_gate.last_attack > 0

\* the reply that handle_ducking saw in the tick recorded in t
ReplyOf(t) == [kind |-> IF t.read.ok THEN "Ok" ELSE "Err", db |-> t.read.db,
               muted |-> t.muted]

\* entry b follows entry a: the next entry of the same table or the first
\* entry of the opposite table
Follows(a, b) ==
    \/ b.duck = a.duck /\ b.index = a.index + 1
    \/ b.duck # a.duck /\ b.index = 0

\* C9: when a step fires and calls of its run_ducking fail, the AudioDucker
\* (cursors, flags, accumulators) ends the tick exactly as with every call
\* succeeding, and the emission after a failed one is never the same entry
\* again: it is the following entry of that table or the first of the other.
C9_FailureAdvances ==
    /\ [][(tick'.emitted # <<>> /\ Failed(tick'))
            => /\ ducking' = handle_ducking(ducking, ReplyOf(tick'), NoFails).d
               /\ \/ ducking'.temp.ducking_index = ducking.temp.ducking_index + 1
                  \/ ducking'.temp.unducking_index = ducking.temp.unducking_index + 1]_vars
    /\ []((hist.before # NoEntry /\ hist.before_failed)
            => Follows(hist.before, hist.last))

\* an emission whose calls all failed, and the emission after it
C9_Witness ==
    /\ hist.before # NoEntry
    /\ hist.before_failed
    /\ tick.emitted # <<>>
    /\ hist.last = tick.emitted[1]
    /\ hist.last.duck = hist.before.duck
    /\ \A i \in 1..Len(tick.calls) : ~tick.calls[i].ok

\* C10: in one run_ducking(volume) call every duck-routed cell is written
\* with volume whichever other calls fail, and the input channel of every
\* cell whose write succeeded is committed right after that write.
C10_EveryCellServed ==
    tick.emitted # <<>> =>
      \A c \in RoutedCells(profile.ducking.output_routing) :
        \E i \in 1..Len(tick.calls) :
          /\ tick.calls[i] = SetCall(c[1], c[2], tick.emitted[1].volume,
                                     c \notin tick.fails.set)
          /\ c \notin tick.fails.set
               => /\ i < Len(tick.calls)
                  /\ tick.calls[i + 1] = ApplyCall(c[1], c[2], tick.emitted[1].volume,
                                                   c \notin tick.fails.apply)

\* three duck-routed cells, the write of the first fails, the other two are
\* written and committed
C10_Witness ==
    /\ Cardinality(RoutedCells(profile.ducking.output_routing)) = 3
    /\ tick.emitted # <<>>
    /\ tick.fails = [set |-> {CellAt(0)}, apply |-> {}]
    /\ Len(tick.calls) = 5
    /\ ~tick.calls[1].ok
    /\ \A i \in 2..5 : tick.calls[i].ok

\* the commits issued for an input channel in the call recorded in tick
Commits(input) ==
    Cardinality({i \in 1..Len(tick.calls) :
                    /\ tick.calls[i].op = "apply_routing_for_channel"
                    /\ tick.calls[i].input = input})

\* C11: in one run_ducking(volume) call the commit is issued exactly once for
\* each input channel with at least one cell successfully written and not at
\* all for an input channel with no written cell, however many duck-routed
\* output cells that input has.
C11_CommitOncePerInput ==
    tick.emitted # <<>> =>
      \A k \in 1..Len(InputChannels) :
        Commits(InputChannels[k])
          = IF \E c \in RoutedCells(profile.ducking.output_routing) :
                  c[1] = InputChannels[k] /\ c \notin tick.fails.set
            THEN 1 ELSE 0

\* the threshold the gate runs with (line 293), in tenths of a dB
GateThreshold == (mic_profile.gate.threshold + 12) * 10
\* a reading reached the gate with the source unmuted
Gated(t) == t.ticked /\ t.read.ok /\ ~t.muted

\* C12: the level the gate returns is never below the floor MIC_DB_MAX, and
\* with the source muted the gate returns exactly the floor and leaves all of
\* its memory (accumulators, last output, gated flag) unchanged.
C12_GateFloor ==
    /\ []((tick.ticked /\ tick.read.ok) => tick.new_db >= MIC_DB_MAX)
    /\ [][(tick'.ticked /\ tick'.read.ok /\ tick'.muted)
            => /\ tick'.new_db = MIC_DB_MAX
               /\ ducking'.noise_gate = ducking.noise_gate]_vars

\* a muted reading while the gate is open: the floor is returned and the
\* envelope is where it was
C12_Witness ==
    /\ tick.ticked /\ tick.read.ok /\ tick.muted
    /\ tick.read.db >= GateThreshold
    /\ tick.new_db = MIC_DB_MAX
    /\ ducking.noise_gate.last_attack = mic_profile.gate.attack
    /\ ducking.noise_gate.last_attack_db = -100

\* Scenario D: the gate runs with threshold -20 dB and attack 40 ms, the tick
\* is 20 ms, and an unmuted reading of -10 dB arrives
ScenarioD ==
    /\ GateThreshold = -200
    /\ mic_profile.gate.attack = 40
    /\ timer_interval = 20
    /\ Gated(tick')
    /\ tick'.read.db = -100

Triggering(d) == Mic \in d.ducking_calc.set
\* 50% of the way from the floor to -10 dB
HalfWay == MIC_DB_MAX + ((-100 - MIC_DB_MAX) \div 2)

\* C13 as stated: after the first tick at -10 dB the gated output is the value
\* 50% of the way from the floor to -10 dB, after the second it is -10 dB, and
\* the mic triggers on a tick iff that tick's gated output is >= -20 dB.
C13_HalfWayFirst ==
    [][ScenarioD
         => /\ ducking.noise_gate.last_attack = 0
                 => tick'.new_db = HalfWay /\ ~Triggering(ducking')
            /\ ducking.noise_gate.last_attack = 20
                 => tick'.new_db = -100 /\ Triggering(ducking')
            /\ Triggering(ducking') <=> tick'.new_db >= -200]_vars

\* C13 amended: after the first tick at -10 dB the interpolated value, being
\* below the gate's threshold, is clamped and the gated output is the floor;
\* after the second tick it is exactly -10 dB; the mic triggers on a tick iff
\* that tick's gated output is >= the profile threshold (-32 dB), which for
\* a gate output is the same as >= -20 dB.
C13_FloorFirst ==
    [][ScenarioD
         => /\ ducking.noise_gate.last_attack = 0
                 => tick'.new_db = MIC_DB_MAX /\ ~Triggering(ducking')
            /\ ducking.noise_gate.last_attack = 20
                 => tick'.new_db = -100 /\ Triggering(ducking')
            /\ Triggering(ducking') <=> tick'.new_db >= mic_profile.gate.threshold * 10
            /\ Triggering(ducking') <=> tick'.new_db >= -200]_vars

\* the first tick at -10 dB has returned the floor and the mic does not trigger
C13_Witness ==
    /\ GateThreshold = -200
    /\ mic_profile.gate.attack = 40
    /\ Gated(tick)
    /\ tick.read.db = -100
    /\ ducking.noise_gate.last_attack = 20
    /\ tick.new_db = MIC_DB_MAX
    /\ ~Triggering(ducking)

\* an unmuted reading below the gate threshold arrives
BelowThreshold == Gated(tick') /\ tick'.read.db < GateThreshold
\* the release accumulator of the tick, before it is clamped
ReleaseAcc == ducking.noise_gate.last_release + timer_interval
GateOpen == ducking.noise_gate.last_attack_db >= GateThreshold

\* C17 as stated: with the gate open and the unmuted raw level below the
\* threshold the output is held at the last output while the release
\* accumulator is below release_ms and snaps to the floor on the tick where
\* the accumulator reaches release_ms; afterwards it stays at the floor.
C17_SnapWhenReached ==
    [][BelowThreshold
         => /\ (GateOpen /\ ReleaseAcc < mic_profile.gate.release)
                 => tick'.new_db = ducking.noise_gate.last_attack_db
            /\ (GateOpen /\ ReleaseAcc >= mic_profile.gate.release)
                 => tick'.new_db = MIC_DB_MAX
            /\ ~GateOpen => tick'.new_db = MIC_DB_MAX]_vars

\* C17 amended: the output is held at the last output on every tick where the
\* release accumulator is at or below release_ms, and snaps to the floor on
\* the first tick where the accumulator exceeds release_ms (it is then
\* clamped to release_ms); afterwards it stays at the floor until the raw
\* level is at or above the threshold again.
C17_SnapWhenExceeded ==
    [][BelowThreshold
         => /\ (GateOpen /\ ReleaseAcc <= mic_profile.gate.release)
                 => /\ tick'.new_db = ducking.noise_gate.last_attack_db
                    /\ ducking'.noise_gate.last_release = ReleaseAcc
            /\ (GateOpen /\ ReleaseAcc > mic_profile.gate.release)
                 => /\ tick'.new_db = MIC_DB_MAX
                    /\ ducking'.noise_gate.last_release = mic_profile.gate.release
            /\ ~GateOpen
                 => /\ tick'.new_db = MIC_DB_MAX
                    /\ ducking'.noise_gate.last_attack_db = MIC_DB_MAX]_vars

\* the release accumulator has reached release_ms and the output is still held
C17_Witness ==
    /\ Gated(tick)
    /\ tick.read.db < GateThreshold
    /\ ducking.noise_gate.last_release = mic_profile.gate.release
    /\ ~ducking.noise_gate.was_above
    /\ tick.new_db = -100

\* C14: during a run of requesting ticks that began in Idle the entries
\* emitted are duck_steps[0], duck_steps[1], ... in table order, the k-th
\* emission of the run being entry k - 1, never more than len(duck_steps) of
\* them, so none is skipped or repeated and none follows the last; and the
\* same of unduck_steps during a run of ticks without a request that began
\* in Ducked.
C14_TableOrder ==
    /\ hist.from_idle
         => /\ hist.streak_emits <= Len(ducks)
            /\ ducking.temp.ducking_index = hist.streak_emits
            /\ tick.emitted # <<>> => Emitted(tick, TRUE, hist.streak_emits - 1)
    /\ hist.from_ducked
         => /\ hist.calm_emits <= Len(unducks)
            /\ ducking.temp.unducking_index = hist.calm_emits
            /\ tick.emitted # <<>> => Emitted(tick, FALSE, hist.calm_emits - 1)

\* the last entry of a duck table of two entries or more has been emitted in
\* a run that began in Idle, and the request has stayed on since without a
\* further emission
C14_Witness ==
    /\ Len(ducks) >= 2
    /\ hist.from_idle
    /\ hist.streak_emits = Len(ducks)
    /\ hist.last = [duck |-> TRUE, index |-> Len(ducks) - 1,
                    volume |-> At(ducks, Len(ducks) - 1).route_volume]
    /\ tick.emitted = <<>>
    /\ Ducked(ducking)

\* C15: the wait accumulator of a direction is 0 right after every emission
\* in that direction, the first step and later steps alike, so that step i
\* follows step i - 1 by at least the wait_time of step i - 1.
C15_ResetOnEmission ==
    [][Len(tick'.emitted) = 1
         => IF tick'.emitted[1].duck
            THEN ducking'.temp.last_duck_time = 0
            ELSE ducking'.temp.last_unduck_time = 0]_vars

\* C16: a tick before the first duck emission on which the request is false
\* resets the duck accumulator to 0, so the first duck step is emitted only
\* after consecutive requesting ticks spanning at least attack_time; a tick
\* while Ducked on which the request is true resets the unduck accumulator
\* to 0, so the first unduck step is emitted only after consecutive ticks
\* without a request spanning at least release_time.
C16_DwellBeforeFirst ==
    [][tick'.consulted
         => /\ (ducking'.ducking_calc.set = {} /\ ~ducking.ducking_calc.in_duck_mode)
                 => ducking'.temp.last_duck_time = 0
            /\ Emitted(tick', TRUE, 0)
                 => hist'.streak * timer_interval >= profile.ducking.attack_time
            /\ (ducking'.ducking_calc.set # {} /\ Ducked(ducking))
                 => ducking'.temp.last_unduck_time = 0
            /\ Emitted(tick', FALSE, 0)
                 => hist'.calm * timer_interval >= profile.ducking.release_time]_vars

PhaseIdle(d) ==
    \/ Flags(d) = <<FALSE, FALSE, FALSE>>
    \/ Flags(d) = <<FALSE, FALSE, TRUE>> /\ d.temp.unducking_index = Len(unducks)
PhaseEnteringDuck(d) ==
    Flags(d) = <<TRUE, TRUE, FALSE>> /\ d.temp.ducking_index < Len(ducks)
PhaseDucked(d) ==
    Flags(d) = <<TRUE, TRUE, FALSE>> /\ d.temp.ducking_index = Len(ducks)
PhaseEnteringUnduck(d) ==
    Flags(d) = <<FALSE, FALSE, TRUE>> /\ d.temp.unducking_index < Len(unducks)
Phases(d) == {ph \in {"Idle", "EnteringDuck", "Ducked", "EnteringUnduck"} :
                \/ ph = "Idle" /\ PhaseIdle(d)
                \/ ph = "EnteringDuck" /\ PhaseEnteringDuck(d)
                \/ ph = "Ducked" /\ PhaseDucked(d)
                \/ ph = "EnteringUnduck" /\ PhaseEnteringUnduck(d)}

\* C19: (in_duck_mode, in_ducking, in_unducking) is (false,false,false),
\* (true,true,false) or (false,false,true) in every reachable state, so
\* in_duck_mode equals in_ducking, in_ducking and in_unducking are never both
\* true, and the state is in exactly one phase.
C19_FlagCombinations ==
    /\ Flags(ducking) \in {<<FALSE, FALSE, FALSE>>, <<TRUE, TRUE, FALSE>>,
                           <<FALSE, FALSE, TRUE>>}
    /\ Cardinality(Phases(ducking)) = 1

\* a second duck after an unduck: the flags are (true,true,false) again
C19_Witness ==
    /\ Flags(ducking) = <<TRUE, TRUE, FALSE>>
    /\ Emitted(tick, TRUE, 0)
    /\ hist.before # NoEntry
    /\ ~hist.before.duck

\* the branch conditions as line 109 captures them: the flags of before the
\* tick with the is_empty that handle_result has just set
CalcOfTick ==
    [ducking.ducking_calc EXCEPT !.is_empty = ducking'.ducking_calc.is_empty]

C20_Branch ==
    LET calc == CalcOfTick
        temp == ducking.temp
        first_duck == need_first_duck(calc)
        other_duck == ~first_duck /\ need_other_duck(calc, Len(ducks), temp.ducking_index)
        first_unduck == ~first_duck /\ ~other_duck /\ need_first_unduck(calc)
        other_unduck == /\ ~first_duck /\ ~other_duck /\ ~first_unduck
                        /\ need_other_unduck(calc, Len(unducks), temp.unducking_index)
    IN  tick'.consulted
          => /\ first_duck => temp.ducking_index = 0
             /\ other_duck => 1 <= temp.ducking_index /\ temp.ducking_index < Len(ducks)
             /\ first_unduck => temp.unducking_index = 0
             /\ other_unduck
                  => 1 <= temp.unducking_index /\ temp.unducking_index < Len(unducks)
             /\ ~panicked'

\* C20: with non-empty tables every table access is in bounds: whenever
\* handle_other(duck) runs 1 <= ducking_index < len(duck_steps), whenever
\* handle_other(unduck) runs 1 <= unducking_index < len(unduck_steps),
\* whenever handle_first runs that direction's cursor is 0 beforehand, and no
\* index or subtraction panics.
C20_InBounds == [](~panicked) /\ [][C20_Branch]_vars

\* handle_other(unduck) has read the last two entries of the unduck table,
\* after a duck that walked the whole duck table
C20_Witness ==
    /\ Len(ducks) >= 2
    /\ Len(unducks) >= 2
    /\ Emitted(tick, FALSE, Len(unducks) - 1)
    /\ ducking.temp.unducking_index = Len(unducks)
    /\ ducking.temp.ducking_index = 0
    /\ ~panicked

\* the state machine ran on the last tick and saw the request true / false
Requesting == tick.consulted /\ ducking.ducking_calc.set # {}
NotRequesting == tick.consulted /\ ducking.ducking_calc.set = {}
LastOf(duck) ==
    LET table == IF duck THEN ducks ELSE unducks
    IN  [duck |-> duck, index |-> Len(table) - 1,
         volume |-> At(table, Len(table) - 1).route_volume]

\* the last duck step has been emitted and the engine rests in Ducked
RestsDucked ==
    /\ Ducked(ducking)
    /\ hist.last = LastOf(TRUE)
    /\ tick.emitted = <<>>
\* the last unduck step has been emitted and the engine rests in Idle
RestsIdle ==
    /\ Flags(ducking) = <<FALSE, FALSE, TRUE>>
    /\ ducking.temp.unducking_index = Len(unducks)
    /\ hist.last = LastOf(FALSE)
    /\ tick.emitted = <<>>

====
